---- MODULE Spec2Model ----
(***************************************************************************)
(* A model of PythonBlokus: the PentobiGTP session (a wrapper around one   *)
(* pentobi-gtp subprocess), the shared pool of move sessions, the players  *)
(* and the game loop.                                                      *)
(*                                                                         *)
(* The engine subprocess is outside the repository.  It is modelled by     *)
(* what the wrapper observes of it through the GTP commands it sends: a    *)
(* game is the list of placements played so far, "play" appends a legal    *)
(* placement, "undo" retracts the last one, "savesgf"/"loadsgf" copy the   *)
(* list to and from a file, and the queries are functions of the list.     *)
(* The 20x20 board is abstracted to a row of NCells cells and a placement  *)
(* covers one cell.                                                        *)
(***************************************************************************)
EXTENDS Integers, Sequences, FiniteSets, TLC

\* ------------------------------------------------------------------ bounds
NCells == 2           \* cells of the abstract board
MaxHistory == 4       \* cap on Len(previous_players) of a primary session
MaxCloneHistory == 1  \* cap on Len(previous_players) of the session cloned into
MaxRand == 2          \* range of the random suffix of a temporary file name
MaxTime == 3          \* the clock stops advancing here
Timeout == 2          \* play_game's timeout, in ticks of the clock

\* --------------------------------------------------------------- constants
Seats == 1..4
Cells == 1..NCells
Games == {1, 2}       \* the primary sessions, one per game
Aux == 3              \* the pooled session used only for generating moves
Sessions == Games \cup {Aux}
Free == 0             \* a lock nobody holds
Main == 1             \* the calling thread of the sequential API specification

\* Move text: "pass" or the coordinates of a placement.
PlacementOf == <<"a1", "b1", "c1", "d1", "e1", "f1">>
Placements == {PlacementOf[c] : c \in Cells}
Moves == Placements \cup {"pass"}
CellOf(mv) == CHOOSE c \in Cells : PlacementOf[c] = mv

VARIABLES
  sess,     \* sess[s]: the PentobiGTP object's current_player, previous_players, level
  game,     \* game[s]: the engine subprocess's move list, a sequence of [pid, mv]
  files,    \* the file system: file name -> saved move list
  lock,     \* lock[s]: the thread holding PentobiGTP.lock, or Free
  sent,     \* the commands written to subprocesses by the latest operation
  last,     \* the latest operation: its arguments, the state before it, its outcome
  pool,     \* _GTP_MOVE_SESSIONS: hash of the start arguments -> session instance
  made,     \* the PentobiGTP instances the pool constructed: made[i] is instance i
  handed,   \* every request the pool has answered, with the instance it returned
  players,  \* players[t]: the list of players passed to play_game for game t
  th,       \* th[t]: the thread running play_game for game t: position and locals
  now       \* time.time()

sessionVars == <<sess, game, files, lock, sent>>
poolVars == <<pool, made, handed>>
gameVars == <<players, th, now>>
vars == <<sess, game, files, lock, sent, last, pool, made, handed, players, th, now>>

\* ------------------------------------------------------------ the engine
\* The engine's colour glyph for each seat, as showboard prints it.
Glyph == <<"X", "O", "#", "@">>

\* The cells a seat's pieces can ever cover (the engine's placement rules).
Reach(pid) == {c \in Cells : (c % 4) \in {pid % 4, (pid + 1) % 4}}

Occupied(g) == {CellOf(g[i].mv) : i \in 1..Len(g)}

Legal(g, pid) == {PlacementOf[c] : c \in Reach(pid) \ Occupied(g)}

\* The reply to all_legal: the legal placements, one per line.
LegalSeq(g, pid) ==
  SelectSeq([c \in 1..NCells |-> PlacementOf[c]], LAMBDA m : m \in Legal(g, pid))

\* The reply to showboard: one glyph per cell.
BoardText(g) ==
  [c \in 1..NCells |->
     IF c \in Occupied(g)
       THEN Glyph[g[CHOOSE i \in 1..Len(g) : CellOf(g[i].mv) = c].pid]
       ELSE "."]

\* The reply to final_score: the cells each seat covers.
ScoreOf(g) == [p \in 1..4 |-> Cardinality({i \in 1..Len(g) : g[i].pid = p})]

Ok(body) == [st |-> "=", body |-> body]
Err == [st |-> "?", body |-> <<>>]
NoChoice == Ok(<<>>)

\* The replies the engine may give to reg_genmove.
GenResponses(g, pid) ==
  IF Legal(g, pid) # {}
    THEN {Ok(<<m>>) : m \in Legal(g, pid)}
    ELSE {Err, Ok(<<>>), Ok(<<"pass">>)}

Cmd(name, pid, arg) == [name |-> name, pid |-> pid, arg |-> arg]

Exists(fs, f) == f \in DOMAIN fs

WriteFile(fs, f, g) == [n \in (DOMAIN fs) \cup {f} |-> IF n = f THEN g ELSE fs[n]]

RemoveFile(fs, f) == [n \in (DOMAIN fs) \ {f} |-> fs[n]]

\* One command executed by the engine: the new move list, the files, the reply.
\* Where the reply is the engine's to choose, choice is the reply: the move of
\* reg_genmove, and Err when the engine cannot read the file of loadsgf.
Engine(g, fs, cmd, choice) ==
  CASE cmd.name = "play" ->
         IF cmd.arg \in Legal(g, cmd.pid)
           THEN [g |-> Append(g, [pid |-> cmd.pid, mv |-> cmd.arg]), files |-> fs, resp |-> Ok(<<>>)]
           ELSE [g |-> g, files |-> fs, resp |-> Err]
    [] cmd.name = "undo" ->
         IF Len(g) > 0
           THEN [g |-> SubSeq(g, 1, Len(g) - 1), files |-> fs, resp |-> Ok(<<>>)]
           ELSE [g |-> g, files |-> fs, resp |-> Err]
    [] cmd.name = "showboard" -> [g |-> g, files |-> fs, resp |-> Ok(BoardText(g))]
    [] cmd.name = "all_legal" -> [g |-> g, files |-> fs, resp |-> Ok(LegalSeq(g, cmd.pid))]
    [] cmd.name = "reg_genmove" -> [g |-> g, files |-> fs, resp |-> choice]
    [] cmd.name = "final_score" -> [g |-> g, files |-> fs, resp |-> Ok(ScoreOf(g))]
    [] cmd.name = "savesgf" -> [g |-> g, files |-> WriteFile(fs, cmd.arg, g), resp |-> Ok(<<>>)]
    [] cmd.name = "loadsgf" ->
         IF Exists(fs, cmd.arg) /\ ~(choice = Err)
           THEN [g |-> fs[cmd.arg], files |-> fs, resp |-> Ok(<<>>)]
           ELSE [g |-> g, files |-> fs, resp |-> Err]

\* ----------------------------------------------------------- the session
\* A world is the record of everything an operation reads and writes;
\* faults are the commands the engine will answer with an error whatever
\* its state (none, unless a call says otherwise).
World ==
  [sess |-> sess, game |-> game, files |-> files, lock |-> lock, sent |-> <<>>,
   faults |-> {}]

NoRes == "None"
Ret(w, res) == [w |-> w, res |-> res, exc |-> "none"]
Raise(w, e) == [w |-> w, res |-> NoRes, exc |-> e]
\* The caller blocks on a lock: held by itself (for ever) or by another thread.
Block(w, s, caller) ==
  [w |-> w, res |-> NoRes, exc |-> IF w.lock[s] = caller THEN "deadlock" ELSE "wait"]

\* utils.py conversion_map
ConversionMap(x) ==
  CASE x = "." -> -1 [] x = "X" -> 0 [] x = "O" -> 1 [] x = "#" -> 2 [] x = "@" -> 3 [] x = "+" -> -1

\* parse_gtp_board_to_matrix, on the abstract row of cells
ParseBoard(text) == [c \in DOMAIN text |-> ConversionMap(text[c])]

\* "?" in response
HasQ(resp) == resp.st = "?"

\* Mutant: a send_command that raises keeps the lock it took.
SendCommandKeepsLock(w, s, cmd, raise_errors, lock_process, caller, choice) ==
  IF lock_process /\ w.lock[s] # Free
    THEN Block(w, s, caller)
    ELSE LET e == Engine(w.game[s], w.files, cmd,
                         IF cmd.name \in w.faults THEN Err ELSE choice)
             entry == [s |-> s, cmd |-> cmd, by |-> caller,
                       held |-> lock_process \/ w.lock[s] = caller]
             w1 == [w EXCEPT !.game[s] = e.g, !.files = e.files,
                             !.sent = Append(@, entry)]
         IN IF HasQ(e.resp) /\ raise_errors
              THEN Raise([w1 EXCEPT !.lock[s] = caller], "Exception")
              ELSE Ret(w1, e.resp)

\* PentobiGTP.send_command: with the lock (or EmptyLock) write, read, raise on "?".
SendCommand(w, s, cmd, raise_errors, lock_process, caller, choice) ==
  IF lock_process /\ w.lock[s] # Free
    THEN Block(w, s, caller)
    ELSE LET e == Engine(w.game[s], w.files, cmd,
                         IF cmd.name \in w.faults THEN Err ELSE choice)
             entry == [s |-> s, cmd |-> cmd, by |-> caller,
                       held |-> lock_process \/ w.lock[s] = caller]
             w1 == [w EXCEPT !.game[s] = e.g, !.files = e.files,
                             !.sent = Append(@, entry)]
         IN IF HasQ(e.resp) /\ raise_errors
              THEN Raise(w1, "Exception")
              ELSE Ret(w1, e.resp)

\* Mutant: the turn check accepts every seat.
CheckPidHasTurnAlways(w, s, pid) == TRUE

\* PentobiGTP._check_pid_has_turn
CheckPidHasTurn(w, s, pid) == pid = w.sess[s].current_player

\* Mutant: the rotation does not wrap around.
ChangePlayerNoWrap(pid) == pid + 1

\* PentobiGTP._change_player
ChangePlayer(pid) == (pid % 4) + 1

\* Mutant: play_move does nothing for a "pass".
PlayMoveIgnoresPass(w, s, pid, move, lock_process, caller) ==
  IF ~CheckPidHasTurn(w, s, pid)
    THEN Raise(w, "ValueError")
    ELSE IF move = "pass"
      THEN Ret(w, TRUE)
      ELSE LET r == SendCommand(w, s, Cmd("play", pid, move), TRUE, lock_process,
                                caller, NoChoice)
           IN IF r.exc # "none"
                THEN r
                ELSE Ret([r.w EXCEPT !.sess[s].previous_players = Append(@, pid),
                                     !.sess[s].current_player = ChangePlayer(pid)], TRUE)

\* Mutant: play_move records the seat before the command is sent.
PlayMovePushFirst(w, s, pid, move, lock_process, caller) ==
  IF ~CheckPidHasTurn(w, s, pid)
    THEN Raise(w, "ValueError")
    ELSE LET w0 == [w EXCEPT !.sess[s].previous_players = Append(@, pid),
                             !.sess[s].current_player = ChangePlayer(pid)]
         IN IF move # "pass"
              THEN SendCommand(w0, s, Cmd("play", pid, move), TRUE, lock_process,
                               caller, NoChoice)
              ELSE Ret(w0, TRUE)

\* PentobiGTP.play_move
PlayMove(w, s, pid, move, lock_process, caller) ==
  IF ~CheckPidHasTurn(w, s, pid)
    THEN Raise(w, "ValueError")
    ELSE LET r == IF move # "pass"
                    THEN SendCommand(w, s, Cmd("play", pid, move), TRUE, lock_process,
                                     caller, NoChoice)
                    ELSE Ret(w, NoRes)
         IN IF r.exc # "none"
              THEN r
              ELSE Ret([r.w EXCEPT !.sess[s].previous_players = Append(@, pid),
                                   !.sess[s].current_player = ChangePlayer(pid)], TRUE)

\* undo_last_move without the check of the history: the undo is sent even
\* when previous_players is empty.
UndoLastMoveAlways(w, s, lock_process, caller) ==
  LET prev == w.sess[s].previous_players
      r == SendCommand(w, s, Cmd("undo", 0, ""), TRUE, lock_process, caller, NoChoice)
  IN IF r.exc # "none"
       THEN r
       ELSE IF HasQ(r.res)
         THEN Raise(r.w, "ValueError")
         ELSE IF Len(prev) = 0
           THEN Ret(r.w, NoRes)
           ELSE Ret([r.w EXCEPT
                       !.sess[s].current_player = prev[Len(prev)],
                       !.sess[s].previous_players = SubSeq(prev, 1, Len(prev) - 1)],
                    NoRes)

\* PentobiGTP.undo_last_move
UndoLastMove(w, s, lock_process, caller) ==
  LET prev == w.sess[s].previous_players
  IN IF Len(prev) = 0
       THEN Ret(w, NoRes)
       ELSE LET r == SendCommand(w, s, Cmd("undo", 0, ""), TRUE, lock_process,
                                 caller, NoChoice)
            IN IF r.exc # "none"
                 THEN r
                 ELSE IF HasQ(r.res)
                   THEN Raise(r.w, "ValueError")
                   ELSE Ret([r.w EXCEPT
                               !.sess[s].current_player = prev[Len(prev)],
                               !.sess[s].previous_players = SubSeq(prev, 1, Len(prev) - 1)],
                            NoRes)

\* PentobiGTP.board (through board_as_text): always takes the lock
Board(w, s, caller) ==
  LET r == SendCommand(w, s, Cmd("showboard", 0, ""), TRUE, TRUE, caller, NoChoice)
  IN IF r.exc # "none" THEN r ELSE Ret(r.w, ParseBoard(r.res.body))

\* PentobiGTP.score
Score(w, s, caller) ==
  LET r == SendCommand(w, s, Cmd("final_score", 0, ""), TRUE, TRUE, caller, NoChoice)
  IN IF r.exc # "none" THEN r ELSE Ret(r.w, r.res.body)

\* A file name: a stem (two numbers) and an extension.
FileName(h, r, ext) == [h |-> h, r |-> r, ext |-> ext]

\* sgf_file.endswith(".blksgf")
EndsWithBlksgf(f) == f.ext = ".blksgf"

\* PentobiGTP.load_sgf
LoadSgf(w, s, f, lock_process, caller) ==
  IF ~Exists(w.files, f)
    THEN Raise(w, "ValueError")
    ELSE IF ~EndsWithBlksgf(f)
      THEN Raise(w, "AssertionError")
      ELSE SendCommand(w, s, Cmd("loadsgf", 0, f), TRUE, lock_process, caller, NoChoice)

\* PentobiGTP.save_sgf
SaveSgf(w, s, f, overwrite, lock_process, caller) ==
  IF Exists(w.files, f) /\ ~overwrite
    THEN Raise(w, "ValueError")
    ELSE IF ~EndsWithBlksgf(f)
      THEN Raise(w, "AssertionError")
      ELSE SendCommand(w, s, Cmd("savesgf", 0, f), TRUE, lock_process, caller, NoChoice)

\* hash(str(other.board)): the board read as a number in base 5
RECURSIVE BoardHash(_)
BoardHash(b) ==
  IF Len(b) = 0 THEN 0 ELSE (b[Len(b)] + 1) + 5 * BoardHash(SubSeq(b, 1, Len(b) - 1))

\* str(hash(str(other.board))) + str(random.randint(0, 2**32-1)) + ".blksgf"
TempFilePath(b, rnd) == FileName(BoardHash(b), rnd, ".blksgf")

\* Mutant: the clone forgets to copy current_player.
SetToStateNoTurn(w, s, other, lock_process, caller, rnd) ==
  LET b == Board(w, other, caller)
  IN IF b.exc # "none" THEN b
     ELSE LET tmp == TempFilePath(b.res, rnd)
              r1 == SaveSgf(b.w, other, tmp, TRUE, lock_process, caller)
          IN IF r1.exc # "none" THEN r1
             ELSE LET r2 == LoadSgf(r1.w, s, tmp, lock_process, caller)
                  IN IF r2.exc # "none" THEN r2
                     ELSE Ret([r2.w EXCEPT !.files = RemoveFile(@, tmp)], NoRes)

\* PentobiGTP.set_to_state
SetToState(w, s, other, lock_process, caller, rnd) ==
  LET b == Board(w, other, caller)
  IN IF b.exc # "none" THEN b
     ELSE LET tmp == TempFilePath(b.res, rnd)
              r1 == SaveSgf(b.w, other, tmp, TRUE, lock_process, caller)
          IN IF r1.exc # "none" THEN r1
             ELSE LET r2 == LoadSgf(r1.w, s, tmp, lock_process, caller)
                  IN IF r2.exc # "none" THEN r2
                     ELSE Ret([r2.w EXCEPT
                                 !.sess[s].current_player = r2.w.sess[other].current_player,
                                 !.files = RemoveFile(@, tmp)],
                              NoRes)

\* PentobiGTP.get_legal_moves
GetLegalMoves(w, s, pid, lock_process, caller) ==
  LET r == SendCommand(w, s, Cmd("all_legal", pid, ""), TRUE, lock_process, caller, NoChoice)
  IN IF r.exc # "none" THEN r
     ELSE Ret(r.w, IF Len(r.res.body) = 0 THEN <<"pass">> ELSE r.res.body)

\* PentobiGTP.generate_internal_move
GenerateInternalMove(w, s, pid, lock_process, caller, choice) ==
  IF ~CheckPidHasTurn(w, s, pid)
    THEN Raise(w, "ValueError")
    ELSE LET r == SendCommand(w, s, Cmd("reg_genmove", pid, ""), FALSE, lock_process,
                              caller, choice)
         IN IF r.exc # "none" THEN r
            ELSE IF HasQ(r.res) THEN Ret(r.w, "pass")
            ELSE Ret(r.w, IF Len(r.res.body) = 0 THEN "=" ELSE r.res.body[1])

\* PentobiGTP.is_game_finished: the loop over range(1,5), from seat pid on
\* (r is the outcome of get_legal_moves(pid), evaluated once)
RECURSIVE IsGameFinishedFrom(_, _, _, _, _)
IsGameFinishedFrom(w, s, pid, lock_process, caller) ==
  IF pid > 4 THEN Ret(w, TRUE)
  ELSE CHOOSE out \in
         {IF r.exc # "none" THEN r
          ELSE IF Len(r.res) # 1 \/ r.res[1] # "pass" THEN Ret(r.w, FALSE)
          ELSE IsGameFinishedFrom(r.w, s, pid + 1, lock_process, caller) :
            r \in {GetLegalMoves(w, s, pid, lock_process, caller)}} : TRUE

\* PentobiGTP.is_game_finished
IsGameFinished(w, s, lock_process, caller) == IsGameFinishedFrom(w, s, 1, lock_process, caller)

\* --------------------------------------------------- the sequential API
\* PentobiGTP.__init__: the attributes of a new session
NewSession(level) == [current_player |-> 1, previous_players |-> <<>>, level |-> level]

Snapshot == [sess |-> sess, game |-> game]

Record(op, s, pid, mv, other, r) ==
  [op |-> op, s |-> s, pid |-> pid, mv |-> mv, other |-> other,
   exc |-> r.exc, res |-> r.res, pre |-> Snapshot]

Apply(r) ==
  /\ sess' = r.w.sess
  /\ game' = r.w.game
  /\ files' = r.w.files
  /\ lock' = r.w.lock
  /\ sent' = r.w.sent

\* A thread that runs no game.
NoFile == FileName(0, 0, "")
NoCall == [valid |-> FALSE, pid |-> 0, cp |-> 0, prev |-> <<>>, game |-> <<>>]
NoCheck == [valid |-> FALSE, finished |-> FALSE, elapsed |-> 0]
NoPlayer == [pid |-> 0, kind |-> "", strategy |-> "", level |-> 0]
Thread(pc) ==
  [pc |-> pc, start |-> 0, p |-> NoPlayer, moves |-> <<>>, sel |-> "", tmp |-> NoFile,
   exc |-> "none", pre |-> NoCall, chk |-> NoCheck]

NoGames ==
  /\ players = [t \in Games |-> <<>>]
  /\ th = [t \in Games |-> Thread("off")]
  /\ now = 0

Init ==
  /\ NoGames
  /\ sess = [s \in Sessions |-> NewSession(1)]
  /\ game = [s \in Sessions |-> <<>>]
  /\ files = <<>>
  /\ lock = [s \in Sessions |-> Free]
  /\ sent = <<>>
  /\ last = [op |-> "init", s |-> 0, pid |-> 0, mv |-> "", other |-> 0,
             exc |-> "none", res |-> NoRes, pre |-> Snapshot]
  /\ pool = <<>>
  /\ made = <<>>
  /\ handed = {}

\* The history cap of a session of the API specification.
HistoryCap(s) == IF s = Aux THEN MaxCloneHistory ELSE MaxHistory

CallPlayMove(s, pid, mv) ==
  /\ Len(sess[s].previous_players) < HistoryCap(s)
  /\ LET r == PlayMove(World, s, pid, mv, TRUE, Main)
     IN Apply(r) /\ last' = Record("play_move", s, pid, mv, 0, r) /\ UNCHANGED <<poolVars, gameVars>>

CallUndoLastMove(s) ==
  LET r == UndoLastMove(World, s, TRUE, Main)
  IN Apply(r) /\ last' = Record("undo_last_move", s, 0, "", 0, r) /\ UNCHANGED <<poolVars, gameVars>>

CallSetToState(s, other) ==
  \E rnd \in 0..(MaxRand - 1) :
    LET r == SetToState(World, s, other, TRUE, Main, rnd)
    IN Apply(r) /\ last' = Record("set_to_state", s, 0, "", other, r) /\ UNCHANGED <<poolVars, gameVars>>

\* The API specification: a primary session (1) is played on, and the pooled
\* session is synchronised to it, as the players do.
Next ==
  \/ \E s \in {1, Aux}, pid \in Seats, mv \in Moves : CallPlayMove(s, pid, mv)
  \/ \E s \in {1, Aux} : CallUndoLastMove(s)
  \/ CallSetToState(Aux, 1)

Spec == Init /\ [][Next]_vars

\* ------------------------------------------------------ the session pool
\* Python values: None, int, bool and str (a str by its index in a table).
PyNone == [t |-> "none", v |-> 0]
PyInt(n) == [t |-> "int", v |-> n]
PyBool(b) == [t |-> "bool", v |-> IF b THEN 1 ELSE 0]
PyStr(i) == [t |-> "str", v |-> i]
Classic == PyStr(1)

IsNumber(x) == x.t \in {"int", "bool"}

\* Python's == on these values: bool is a subclass of int.
PyEq(a, b) == IF IsNumber(a) /\ IsNumber(b) THEN a.v = b.v ELSE a = b

\* Python's hash(): an int hashes to itself, except that hash(-1) is -2.
PyHash(x) ==
  IF IsNumber(x) THEN [t |-> "num", v |-> IF x.v = -1 THEN -2 ELSE x.v] ELSE x

\* hash((key, value)) and hash(frozenset(items)) mix the hashes of their
\* parts; the mixing is taken to be collision free.
HashItem(k, v) == <<k, PyHash(v)>>
HashFrozenset(kw) == {HashItem(k, kw[k]) : k \in DOMAIN kw}

\* get_pentobi_move_session: default_kwargs
DefaultKwargs ==
  [gtp_path |-> PyNone, level |-> PyInt(1), book |-> PyNone, config |-> PyNone,
   game |-> Classic, seed |-> PyNone, showboard |-> PyBool(FALSE),
   nobook |-> PyBool(FALSE), noresign |-> PyBool(TRUE), threads |-> PyInt(1)]

\* A dict literal, in the order its keys were written: a sequence of [k, v].
KeysOf(req) == {req[i].k : i \in 1..Len(req)}
ValueIn(req, key) == req[CHOOSE i \in 1..Len(req) : req[i].k = key].v

\* {**default_kwargs, **starting_kwargs}
MergeKwargs(d, req) ==
  [key \in (DOMAIN d) \cup KeysOf(req) |->
     IF key \in KeysOf(req) THEN ValueIn(req, key) ELSE d[key]]

\* Mutant: the level has no upper limit.
InitErrorNoUpper(kw) ==
  IF ~PyEq(kw.game, Classic) THEN "NotImplementedError"
  ELSE IF kw.level.v < 1 THEN "ValueError"
  ELSE "none"

\* PentobiGTP.__init__: the checks made before the subprocess is started
InitError(kw) ==
  IF ~PyEq(kw.game, Classic) THEN "NotImplementedError"
  ELSE IF kw.level.v < 1 \/ kw.level.v > 9 THEN "ValueError"
  ELSE "none"

\* get_pentobi_move_session
GetPentobiMoveSession(p, m, req) ==
  LET kw == MergeKwargs(DefaultKwargs, req)
      h == HashFrozenset(kw)
  IN IF h \notin DOMAIN p
       THEN IF InitError(kw) # "none"
              THEN [pool |-> p, made |-> m, ret |-> 0, exc |-> InitError(kw)]
              ELSE [pool |-> [x \in (DOMAIN p) \cup {h} |-> IF x = h THEN Len(m) + 1 ELSE p[x]],
                    made |-> Append(m, kw), ret |-> Len(m) + 1, exc |-> "none"]
       ELSE [pool |-> p, made |-> m, ret |-> p[h], exc |-> "none"]

\* The start arguments callers ask for: level and seed, in either order.
ReqItems ==
  {[k |-> "level", v |-> PyInt(n)] : n \in {1, 2}}
    \cup {[k |-> "seed", v |-> PyInt(n)] : n \in {-1, -2}}
Requests ==
  {<<>>} \cup {<<a>> : a \in ReqItems}
    \cup {<<a, b>> : a \in ReqItems, b \in ReqItems}

WellFormed(req) == Cardinality(KeysOf(req)) = Len(req)

\* The parameters a request stands for, defaults filled in.
Resolved(req) ==
  [key \in DOMAIN DefaultKwargs |->
     IF \E i \in 1..Len(req) : req[i].k = key
       THEN req[CHOOSE i \in 1..Len(req) : req[i].k = key].v
       ELSE DefaultKwargs[key]]

CallGetSession(req) ==
  /\ WellFormed(req)
  /\ LET r == GetPentobiMoveSession(pool, made, req)
     IN /\ pool' = r.pool
        /\ made' = r.made
        /\ handed' = IF r.exc = "none" THEN handed \cup {[params |-> Resolved(req), id |-> r.ret]} ELSE handed
        /\ last' = [op |-> "get", req |-> req, ret |-> r.ret, exc |-> r.exc]
  /\ UNCHANGED <<sessionVars, gameVars>>

NextPool == \E req \in Requests : CallGetSession(req)

SpecPool == Init /\ [][NextPool]_vars

\* ------------------------------------------------------------ the players
PrimaryLevel == 1     \* PentobiGTP's default level: the level of a game's session
AuxLevel == 6         \* the level of the pooled session (the test's player P1)

Player(pid, kind, strategy, level) ==
  [pid |-> pid, kind |-> kind, strategy |-> strategy, level |-> level]

\* PentobiInternalPlayer.has_separate_pentobi_sess
HasSeparatePentobiSess(w, prim, p) == w.sess[prim].level # p.level

\* PentobiInternalPlayer.get_move_pentobi_sess: the pooled session of the
\* player's level, or the session the player plays on
MoveSess(w, prim, p) == IF HasSeparatePentobiSess(w, prim, p) THEN Aux ELSE prim

\* np.sum(board == x)
CountCells(board, x) == Cardinality({c \in DOMAIN board : board[c] = x})

\* GreedyExternalPlayer.evaluate_board
EvaluateBoard(p, board) == CountCells(board, p.pid) - CountCells(board, 4 - p.pid)

\* np.argmax: the first index of the largest value (here from 1)
ArgMax(values) ==
  CHOOSE i \in 1..Len(values) :
    /\ \A j \in 1..Len(values) : values[j] <= values[i]
    /\ \A j \in 1..(i - 1) : values[j] < values[i]

\* calc_next_states, the loop body after its undo_last_move ended as r3:
\* the board that was read is kept
KeepBoard(r3, board) == IF r3.exc # "none" THEN r3 ELSE Ret(r3.w, board)

\* calc_next_states, the loop body after self.pentobi_sess.board ended as r2
TryUndo(r2, s, lock_process, caller) ==
  IF r2.exc # "none" THEN r2
  ELSE KeepBoard(UndoLastMove(r2.w, s, lock_process, caller), r2.res)

\* calc_next_states, the loop body after its play_move ended as r1
TryBoard(r1, s, lock_process, caller) ==
  IF r1.exc # "none" THEN r1
  ELSE TryUndo(Board(r1.w, s, caller), s, lock_process, caller)

\* calc_next_states, the loop body for one move: play it, read the board,
\* undo it
TryMove(w, s, pid, move, lock_process, caller) ==
  TryBoard(PlayMove(w, s, pid, move, lock_process, caller), s, lock_process, caller)

\* PentobiExternalPlayer.calc_next_states: the loop, from the k-th move on
\* (CalcNextStatesStep goes to the next move after the k-th ended as r)
RECURSIVE CalcNextStatesFrom(_, _, _, _, _, _, _, _)
RECURSIVE CalcNextStatesStep(_, _, _, _, _, _, _, _)
CalcNextStatesStep(r, s, pid, moves, k, acc, lock_process, caller) ==
  IF r.exc # "none" THEN r
  ELSE CalcNextStatesFrom(r.w, s, pid, moves, k + 1,
                          IF moves[k] = "pass" THEN acc ELSE Append(acc, r.res),
                          lock_process, caller)

CalcNextStatesFrom(w, s, pid, moves, k, acc, lock_process, caller) ==
  IF k > Len(moves) THEN Ret(w, acc)
  ELSE CalcNextStatesStep(IF moves[k] = "pass" THEN Ret(w, NoRes)
                          ELSE TryMove(w, s, pid, moves[k], lock_process, caller),
                          s, pid, moves, k, acc, lock_process, caller)

\* PentobiExternalPlayer.calc_next_states
CalcNextStates(w, s, pid, moves, lock_process, caller) ==
  CalcNextStatesFrom(w, s, pid, moves, 1, <<>>, lock_process, caller)

\* _make_move_with_external_player after calc_next_states ended as r:
\* the move whose board evaluates best
BestOf(r, p, moves) ==
  IF r.exc # "none" THEN r
  ELSE IF Len(r.res) = 0 THEN Raise(r.w, "ValueError")
  ELSE Ret(r.w, moves[ArgMax([i \in 1..Len(r.res) |-> EvaluateBoard(p, r.res[i])])])

\* PentobiExternalPlayer._make_move_with_external_player
MakeMoveWithExternalPlayer(w, s, p, moves, lock_process, caller) ==
  BestOf(CalcNextStates(w, s, p.pid, moves, lock_process, caller), p, moves)

\* if selected_move == "=": selected_move = "pass"
SelectedMove(sel) == IF sel = "=" THEN "pass" ELSE sel

\* ---------------------------------------------------------- the game loop
\* ContinueLoop, but going on when either condition allows it.
ContinueLoopEither(finished, elapsed, timeout) == ~finished \/ elapsed < timeout

\* play_game: while not game.is_game_finished() and time.time() - start_time < timeout
ContinueLoop(finished, elapsed, timeout) == ~finished /\ elapsed < timeout

\* play_game: players[game.current_player - 1], a Python list indexed from 0
PlayerAt(list, current_player) == list[(current_player - 1) + 1]

Elems(seq) == {seq[i] : i \in 1..Len(seq)}

ApplyWorld(w) ==
  /\ sess' = w.sess
  /\ game' = w.game
  /\ files' = w.files
  /\ lock' = w.lock
  /\ sent' = w.sent

\* Leaving the with blocks: every lock the thread holds is released.
ReleaseAll(w, t) ==
  [w EXCEPT !.lock = [s \in Sessions |-> IF w.lock[s] = t THEN Free ELSE w.lock[s]]]

Acquire(w, s, t) == [w EXCEPT !.lock[s] = t]

Idle(rec) == [rec EXCEPT !.p = NoPlayer, !.moves = <<>>, !.sel = "", !.tmp = NoFile]

\* The end of one step of thread t whose calls ended as r: it goes on as
\* rec (leaving its with block if closes), blocks for ever on a lock it
\* holds itself, or the exception leaves play_game.
Finish(t, r, rec, closes) ==
  /\ r.exc # "wait"
  /\ IF r.exc = "none"
       THEN /\ th' = [th EXCEPT ![t] = rec]
            /\ ApplyWorld(IF closes THEN ReleaseAll(r.w, t) ELSE r.w)
       ELSE IF r.exc = "deadlock"
         THEN /\ th' = [th EXCEPT ![t] = Idle([@ EXCEPT !.pc = "deadlocked"])]
              /\ ApplyWorld(r.w)
         ELSE /\ th' = [th EXCEPT ![t] = Idle([@ EXCEPT !.pc = "raised", !.exc = r.exc])]
              /\ ApplyWorld(ReleaseAll(r.w, t))
  /\ UNCHANGED <<last, poolVars, players, now>>

\* A step whose result is the selected move.
Selected(t, r, pc, closes) ==
  Finish(t, r, [th[t] EXCEPT !.pc = pc, !.sel = r.res], closes)

\* play_game: the players are bound to the game, start_time = time.time()
Start(t) ==
  /\ th[t].pc = "start"
  /\ Finish(t, Ret(World, NoRes), [th[t] EXCEPT !.pc = "loop", !.start = now], FALSE)

\* play_game: the loop condition, and the player in turn is looked up
LoopCheck(t) ==
  /\ th[t].pc = "loop"
  /\ LET r == IsGameFinished(World, t, TRUE, t)
         elapsed == now - th[t].start
         chk == [valid |-> TRUE, finished |-> r.res, elapsed |-> elapsed]
     IN Finish(t, r,
               IF r.exc = "none" /\ ContinueLoop(r.res, elapsed, Timeout)
                 THEN [th[t] EXCEPT !.pc = "play", !.chk = chk,
                                    !.p = PlayerAt(players[t], sess[t].current_player)]
                 ELSE Idle([th[t] EXCEPT !.pc = "returned", !.chk = chk]),
               FALSE)

\* The branch of play_move a strategy takes: "random" samples the legal
\* moves, "best" asks for the best move, "epsilon_greedy" does either.
Branches(p) ==
  CASE p.strategy = "random" -> {"random"}
    [] p.strategy = "best" -> {"best"}
    [] p.strategy = "epsilon_greedy" -> {"random", "best"}

\* player.play_move() is called
PlayerCall(t) ==
  /\ th[t].pc = "play"
  /\ \E b \in Branches(th[t].p) :
       LET pre == [valid |-> TRUE, pid |-> th[t].p.pid, cp |-> sess[t].current_player,
                   prev |-> sess[t].previous_players, game |-> game[t]]
           pc == IF th[t].p.kind = "external" THEN "e_lock"
                 ELSE IF b = "random" THEN "i_legal" ELSE "i_lock"
       IN Finish(t, Ret(World, NoRes), [th[t] EXCEPT !.pc = pc, !.pre = pre], FALSE)

\* PentobiInternalPlayer.play_move: a random legal move of the primary session
InternalLegal(t) ==
  /\ th[t].pc = "i_legal"
  /\ LET r == GetLegalMoves(World, t, th[t].p.pid, TRUE, t)
     IN \E mv \in (IF r.exc = "none" THEN Elems(r.res) ELSE {""}) :
          Finish(t, r, [th[t] EXCEPT !.pc = "i_commit", !.sel = mv], FALSE)

\* InternalLock, but the lock is taken whoever holds it.
InternalLockNoWait(t) ==
  /\ th[t].pc = "i_lock"
  /\ LET m == MoveSess(World, t, th[t].p)
     IN Finish(t, Ret(Acquire(World, m, t), NoRes),
               [th[t] EXCEPT !.pc = IF m = t THEN "i_gen" ELSE "c_board"], FALSE)

\* _make_move_with_pentobi_sess: with self.move_pentobi_sess.lock
InternalLock(t) ==
  /\ th[t].pc = "i_lock"
  /\ LET m == MoveSess(World, t, th[t].p)
     IN /\ lock[m] = Free
        /\ Finish(t, Ret(Acquire(World, m, t), NoRes),
                  [th[t] EXCEPT !.pc = IF m = t THEN "i_gen" ELSE "c_board"], FALSE)

\* set_to_state: temp_file_path from other.board and a random number
CloneBoard(t) ==
  /\ th[t].pc = "c_board"
  /\ LET r == Board(World, t, t)
     IN \E rnd \in 0..(MaxRand - 1) :
          Finish(t, r,
                 [th[t] EXCEPT !.pc = "c_save",
                               !.tmp = IF r.exc = "none" THEN TempFilePath(r.res, rnd)
                                       ELSE NoFile],
                 FALSE)

\* set_to_state: other.save_sgf(temp_file_path, overwrite=True, lock_process=False)
CloneSave(t) ==
  /\ th[t].pc = "c_save"
  /\ Finish(t, SaveSgf(World, t, th[t].tmp, TRUE, FALSE, t),
            [th[t] EXCEPT !.pc = "c_load"], FALSE)

\* set_to_state: self.load_sgf(temp_file_path, lock_process=False)
CloneLoad(t) ==
  /\ th[t].pc = "c_load"
  /\ Finish(t, LoadSgf(World, Aux, th[t].tmp, FALSE, t),
            [th[t] EXCEPT !.pc = "c_fin"], FALSE)

\* set_to_state: self.current_player = other.current_player; os.remove
CloneFinish(t) ==
  /\ th[t].pc = "c_fin"
  /\ Finish(t,
            IF Exists(files, th[t].tmp)
              THEN Ret([World EXCEPT !.sess[Aux].current_player = sess[t].current_player,
                                     !.files = RemoveFile(@, th[t].tmp)], NoRes)
              ELSE Raise([World EXCEPT !.sess[Aux].current_player = sess[t].current_player],
                         "FileNotFoundError"),
            [th[t] EXCEPT !.pc = "i_gen", !.tmp = NoFile], FALSE)

\* _make_move_with_pentobi_sess: generate_internal_move(pid, lock_process=False)
InternalGenerate(t) ==
  /\ th[t].pc = "i_gen"
  /\ LET m == MoveSess(World, t, th[t].p)
     IN \E choice \in GenResponses(game[m], th[t].p.pid) :
          LET r == GenerateInternalMove(World, m, th[t].p.pid, FALSE, t, choice)
          IN Finish(t, r, [th[t] EXCEPT !.pc = "i_commit", !.sel = r.res], TRUE)

\* InternalCommit, but the move is played on the session that generated it.
InternalCommitOnMoveSess(t) ==
  /\ th[t].pc = "i_commit"
  /\ Finish(t, PlayMove(World, MoveSess(World, t, th[t].p), th[t].p.pid,
                        SelectedMove(th[t].sel), TRUE, t),
            Idle([th[t] EXCEPT !.pc = "loop"]), FALSE)

\* PentobiInternalPlayer.play_move: self.pentobi_sess.play_move(pid, selected_move)
InternalCommit(t) ==
  /\ th[t].pc = "i_commit"
  /\ Finish(t, PlayMove(World, t, th[t].p.pid, SelectedMove(th[t].sel), TRUE, t),
            Idle([th[t] EXCEPT !.pc = "loop"]), FALSE)

\* PentobiExternalPlayer.play_move: with self.pentobi_sess.lock
ExternalLock(t) ==
  /\ th[t].pc = "e_lock"
  /\ lock[t] = Free
  /\ Finish(t, Ret(Acquire(World, t, t), NoRes), [th[t] EXCEPT !.pc = "e_legal"], FALSE)

\* PentobiExternalPlayer.play_move: the legal moves, and a random one of them
ExternalLegal(t) ==
  /\ th[t].pc = "e_legal"
  /\ LET r == GetLegalMoves(World, t, th[t].p.pid, FALSE, t)
     IN \E b \in Branches(th[t].p) :
          \E mv \in (IF r.exc = "none" /\ b = "random" THEN Elems(r.res) ELSE {""}) :
            Finish(t, r,
                   IF b = "random"
                     THEN [th[t] EXCEPT !.pc = "e_commit", !.sel = mv]
                     ELSE [th[t] EXCEPT !.pc = "e_select", !.moves = r.res],
                   FALSE)

\* PentobiExternalPlayer.play_move: _make_move_with_external_player(all_moves)
ExternalSelect(t) ==
  /\ th[t].pc = "e_select"
  /\ Selected(t, MakeMoveWithExternalPlayer(World, t, th[t].p, th[t].moves, FALSE, t),
              "e_commit", FALSE)

\* PentobiExternalPlayer.play_move: play_move(pid, selected_move, lock_process=False)
ExternalCommit(t) ==
  /\ th[t].pc = "e_commit"
  /\ Finish(t, PlayMove(World, t, th[t].p.pid, SelectedMove(th[t].sel), FALSE, t),
            Idle([th[t] EXCEPT !.pc = "loop"]), TRUE)

Running(t) == th[t].pc \notin {"off", "returned", "raised", "deadlocked"}

\* time passes
Tick ==
  /\ now < MaxTime
  /\ \E t \in Games : Running(t)
  /\ now' = now + 1
  /\ sent' = <<>>
  /\ UNCHANGED <<sess, game, files, lock, last, poolVars, players, th>>

Strategies == {"best", "random", "epsilon_greedy"}

\* The players of a game: one kind, strategy and level for all four seats,
\* or the test's line-up (a level 6 player and three level 1 players).
Configs ==
  {[kind |-> "internal", strategy |-> st, level |-> lv] :
     st \in Strategies, lv \in {PrimaryLevel, AuxLevel}}
    \cup {[kind |-> "external", strategy |-> st, level |-> PrimaryLevel] : st \in Strategies}

\* The seats of the players in list order.
Orders == {<<1, 2, 3, 4>>, <<2, 1, 3, 4>>, <<1, 2, 4, 3>>, <<4, 3, 2, 1>>}

Lineups ==
  {[i \in 1..4 |-> Player(o[i], c.kind, c.strategy, c.level)] : o \in Orders, c \in Configs}
    \cup {[i \in 1..4 |-> Player(i, "internal", "best",
                                 IF i = 1 THEN AuxLevel ELSE PrimaryLevel)]}

\* One game: session 1 at the default level, the pooled session at AuxLevel.
InitGame ==
  /\ sess = [s \in Sessions |-> NewSession(IF s = Aux THEN AuxLevel ELSE PrimaryLevel)]
  /\ game = [s \in Sessions |-> <<>>]
  /\ files = <<>>
  /\ lock = [s \in Sessions |-> Free]
  /\ sent = <<>>
  /\ last = [op |-> "init", s |-> 0, pid |-> 0, mv |-> "", other |-> 0,
             exc |-> "none", res |-> NoRes, pre |-> Snapshot]
  /\ pool = <<>>
  /\ made = <<>>
  /\ handed = {}
  /\ now = 0
  /\ \E l \in Lineups : players = [t \in Games |-> IF t = 1 THEN l ELSE <<>>]
  /\ th = [t \in Games |-> IF t = 1 THEN Thread("start") ELSE Thread("off")]

NextGame ==
  \/ Tick
  \/ \E t \in Games :
       \/ Start(t)
       \/ LoopCheck(t)
       \/ PlayerCall(t)
       \/ InternalLegal(t)
       \/ InternalLock(t)
       \/ CloneBoard(t)
       \/ CloneSave(t)
       \/ CloneLoad(t)
       \/ CloneFinish(t)
       \/ InternalGenerate(t)
       \/ InternalCommit(t)
       \/ ExternalLock(t)
       \/ ExternalLegal(t)
       \/ ExternalSelect(t)
       \/ ExternalCommit(t)

SpecGame == InitGame /\ [][NextGame]_vars

\* ------------------------------------------------ the session's queries
\* generate_internal_move(pid) is called; the engine answers with any of the
\* replies it may give in its state.
CallGenerateInternalMove(s, pid) ==
  \E choice \in GenResponses(game[s], pid) :
    LET r == GenerateInternalMove(World, s, pid, TRUE, Main, choice)
    IN /\ Apply(r)
       /\ last' = [op |-> "generate_internal_move", s |-> s, pid |-> pid, reply |-> choice,
                   exc |-> r.exc, res |-> r.res, pre |-> Snapshot]
       /\ UNCHANGED <<poolVars, gameVars>>

\* The commands callers send directly.
RawCommands ==
  {Cmd("play", pid, mv) : pid \in Seats, mv \in Placements}
    \cup {Cmd("undo", 0, ""), Cmd("showboard", 0, ""), Cmd("all_legal", 1, "")}

\* send_command(command, raise_errors, lock_process); a caller passing
\* lock_process=False does so inside "with sess.lock:".  lockAfter is the
\* holder of the lock when send_command is left.
CallSendCommand(s, cmd, raise_errors, lock_process) ==
  LET w == IF lock_process THEN World ELSE Acquire(World, s, Main)
      r == SendCommand(w, s, cmd, raise_errors, lock_process, Main, NoChoice)
  IN /\ Apply([r EXCEPT !.w = IF lock_process THEN r.w ELSE ReleaseAll(r.w, Main)])
     /\ last' = [op |-> "send_command", s |-> s, cmd |-> cmd, raise_errors |-> raise_errors,
                 lock_process |-> lock_process, exc |-> r.exc, res |-> r.res,
                 lockAfter |-> r.w.lock[s], pre |-> Snapshot]
     /\ UNCHANGED <<poolVars, gameVars>>

\* The query specification: one session is played on, asked for moves and
\* sent commands.
NextQuery ==
  \/ \E pid \in Seats, mv \in Moves : CallPlayMove(1, pid, mv)
  \/ \E pid \in Seats : CallGenerateInternalMove(1, pid)
  \/ \E cmd \in RawCommands, raise_errors \in BOOLEAN, lock_process \in BOOLEAN :
       CallSendCommand(1, cmd, raise_errors, lock_process)

SpecQuery == Init /\ [][NextQuery]_vars

\* ------------------------------------------------ constructing a session
MaxMade == 2          \* cap on the subprocesses spawned

\* The game and level arguments callers pass: "classic" or another mode, and
\* levels around the supported range.
GameArgs == {Classic, PyStr(2)}
LevelArgs == 0..10

\* PentobiGTP.__init__: the argument checks, the search for the binary
\* (found or not), then the subprocess is spawned (appended to procs).
Construct(procs, kw, found) ==
  IF InitError(kw) # "none" THEN [procs |-> procs, exc |-> InitError(kw)]
  ELSE IF ~found THEN [procs |-> procs, exc |-> "ValueError"]
  ELSE [procs |-> Append(procs, kw), exc |-> "none"]

\* PentobiGTP(game=g, level=level)
CallConstruct(g, level, found) ==
  /\ Len(made) < MaxMade
  /\ LET r == Construct(made, [DefaultKwargs EXCEPT !.game = g, !.level = PyInt(level)], found)
     IN /\ made' = r.procs
        /\ last' = [op |-> "construct", game |-> g, level |-> level, found |-> found,
                    exc |-> r.exc, pre |-> made]
  /\ UNCHANGED <<sessionVars, pool, handed, gameVars>>

NextConstruct ==
  \E g \in GameArgs, level \in LevelArgs, found \in BOOLEAN : CallConstruct(g, level, found)

SpecConstruct == Init /\ [][NextConstruct]_vars

\* ------------------------------------------------- evaluating candidates
\* The variables, but for the files and last, of a program that has called
\* nothing yet.
Quiet ==
  /\ NoGames
  /\ sess = [s \in Sessions |-> NewSession(PrimaryLevel)]
  /\ game = [s \in Sessions |-> <<>>]
  /\ lock = [s \in Sessions |-> Free]
  /\ sent = <<>>
  /\ pool = <<>>
  /\ made = <<>>
  /\ handed = {}

\* The boards parse_gtp_board_to_matrix can return: -1 for an empty cell,
\* 0..3 for the glyphs of seats 1..4.
CellValues == {ConversionMap(x) : x \in {".", "X", "O", "#", "@", "+"}}
Boards == [Cells -> CellValues]

\* A GreedyExternalPlayer at seat pid is given two candidate boards.
InitEval ==
  /\ Quiet
  /\ files = <<>>
  /\ \E pid \in Seats, b1 \in Boards, b2 \in Boards :
       last = [op |-> "candidates", pid |-> pid, boards |-> <<b1, b2>>,
               values |-> <<>>, best |-> 0]

\* _make_move_with_external_player, from the boards of calc_next_states on:
\* the boards are evaluated and the index of the best one is selected.
CallEvaluate ==
  /\ last.op = "candidates"
  /\ LET p == Player(last.pid, "external", "best", PrimaryLevel)
         r == BestOf(Ret(World, last.boards), p, <<1, 2>>)
     IN last' = [last EXCEPT !.op = "evaluated",
                             !.values = [i \in 1..2 |-> EvaluateBoard(p, last.boards[i])],
                             !.best = r.res]
  /\ UNCHANGED <<sessionVars, poolVars, gameVars>>

NextEval == CallEvaluate

SpecEval == InitEval /\ [][NextEval]_vars

\* ----------------------------------------------------- saving and loading
MaxFileHistory == 1   \* cap on Len(previous_players) where files are saved
MaxFiles == 3         \* cap on the files that exist at a time

\* The paths callers pass: one with the .blksgf extension, and two with
\* another extension, of which OtherPath is a file that exists from the start.
GoodPath == FileName(-1, 0, ".blksgf")
OtherPath == FileName(-2, 0, ".sgf")
MissingOtherPath == FileName(-3, 0, ".sgf")
Paths == {GoodPath, OtherPath, MissingOtherPath}

\* A call may create the file f.
MayCreate(f) == Exists(files, f) \/ Cardinality(DOMAIN files) < MaxFiles

FileRecord(op, s, other, f, overwrite, faults, r) ==
  [op |-> op, s |-> s, other |-> other, path |-> f, overwrite |-> overwrite,
   faults |-> faults, exc |-> r.exc, res |-> r.res, pre |-> Snapshot, prefiles |-> files]

\* save_sgf(f, overwrite)
CallSaveSgf(s, f, overwrite) ==
  /\ MayCreate(f)
  /\ LET r == SaveSgf(World, s, f, overwrite, TRUE, Main)
     IN /\ Apply(r)
        /\ last' = FileRecord("save_sgf", s, 0, f, overwrite, {}, r)
  /\ UNCHANGED <<poolVars, gameVars>>

\* load_sgf(f)
CallLoadSgf(s, f) ==
  /\ LET r == LoadSgf(World, s, f, TRUE, Main)
     IN /\ Apply(r)
        /\ last' = FileRecord("load_sgf", s, 0, f, FALSE, {}, r)
  /\ UNCHANGED <<poolVars, gameVars>>

\* s.set_to_state(other), with an engine that reads the temporary file or
\* answers loadsgf with an error.
CallSetToStateWith(s, other) ==
  \E rnd \in 0..(MaxRand - 1), faults \in {{}, {"loadsgf"}} :
    LET tmp == TempFilePath(ParseBoard(BoardText(game[other])), rnd)
        r == SetToState([World EXCEPT !.faults = faults], s, other, TRUE, Main, rnd)
    IN /\ faults = {} \/ MayCreate(tmp)
       /\ Apply(r)
       /\ last' = FileRecord("set_to_state", s, other, tmp, TRUE, faults, r)
       /\ UNCHANGED <<poolVars, gameVars>>

InitFiles ==
  /\ Quiet
  /\ files = WriteFile(<<>>, OtherPath, <<>>)
  /\ last = [op |-> "init", s |-> 0, pid |-> 0, mv |-> "", other |-> 0,
             exc |-> "none", res |-> NoRes, pre |-> Snapshot]

\* The file specification: session 1 is played on, saved and loaded, and
\* the pooled session is set to its state.
NextFiles ==
  \/ \E pid \in Seats, mv \in Moves :
       Len(sess[1].previous_players) < MaxFileHistory /\ CallPlayMove(1, pid, mv)
  \/ \E s \in {1, Aux} : CallUndoLastMove(s)
  \/ \E f \in Paths, overwrite \in BOOLEAN : CallSaveSgf(1, f, overwrite)
  \/ \E f \in Paths : CallLoadSgf(1, f)
  \/ CallSetToStateWith(Aux, 1)

SpecFiles == InitFiles /\ [][NextFiles]_vars

\* ------------------------------------------------- parsing the board text
Columns == 2          \* the columns of the board (20 in the program)
MaxRows == 2          \* cap on the body rows of a board text

\* The keys of conversion_map
KnownGlyphs == {".", "X", "O", "#", "@", "+"}

\* The tokens of a line once split at the blanks: glyphs, and "Z" for any
\* other text (a glyph the map does not know, or an annotation).
Tokens == {".", "X", "Z"}

\* A body line: the row number, then up to Columns + 1 tokens.
BodyLines ==
  UNION {{<<"1">> \o cells : cells \in [1..k -> Tokens]} : k \in 0..(Columns + 1)}

\* A board text, line by line: a first line, the body, the line of letters.
BoardTexts ==
  UNION {{<<<<>>>> \o body \o <<<<"A", "B">>>> : body \in [1..n -> BodyLines]} :
           n \in 1..MaxRows}

\* board_in_lines[1:-1]
BodyOf(lines) == SubSeq(lines, 2, Len(lines) - 1)

\* board_in_lines_splitted[i][1:21]
RowCells(line) ==
  SubSeq(line, 2, IF Len(line) < Columns + 1 THEN Len(line) ELSE Columns + 1)

\* parse_gtp_board_to_matrix on the split lines: the rows are cut, converted
\* (KeyError on a token that is no key) and put into np.array, which for
\* rows of different lengths raises ValueError (strict, numpy from 1.24 on)
\* or builds an array of lists.
ParseGtpBoardToMatrix(lines, strict) ==
  LET rows == [i \in 1..Len(BodyOf(lines)) |-> RowCells(BodyOf(lines)[i])]
  IN IF \E i \in 1..Len(rows) : \E j \in 1..Len(rows[i]) : rows[i][j] \notin KnownGlyphs
       THEN [exc |-> "KeyError", res |-> <<>>]
       ELSE IF strict /\ \E i \in 1..Len(rows), k \in 1..Len(rows) : Len(rows[i]) # Len(rows[k])
         THEN [exc |-> "ValueError", res |-> <<>>]
         ELSE [exc |-> "none",
               res |-> [i \in 1..Len(rows) |->
                          [j \in 1..Len(rows[i]) |-> ConversionMap(rows[i][j])]]]

\* A board text is about to be parsed.
InitParse ==
  /\ Quiet
  /\ files = <<>>
  /\ \E lines \in BoardTexts, strict \in BOOLEAN :
       last = [op |-> "text", lines |-> lines, strict |-> strict, exc |-> "none", res |-> <<>>]

CallParse ==
  /\ last.op = "text"
  /\ LET r == ParseGtpBoardToMatrix(last.lines, last.strict)
     IN last' = [last EXCEPT !.op = "parsed", !.exc = r.exc, !.res = r.res]
  /\ UNCHANGED <<sessionVars, poolVars, gameVars>>

NextParse == CallParse

SpecParse == InitParse /\ [][NextParse]_vars

\* ------------------------------------------------- norming the board
Side == 3             \* rows and columns of a board matrix (20 in the program)
MaxNormalize == 2     \* cap on the normalisations applied in a row

\* The values the cells off the corners take in the boards explored.
InnerValues == {-1, 2}

IsCorner(i, j) == i \in {1, Side} /\ j \in {1, Side}

\* The board matrices explored: any value in the corners.
Grids ==
  {b \in [1..Side -> [1..Side -> CellValues]] :
     \A i \in 1..Side, j \in 1..Side : IsCorner(i, j) \/ b[i][j] \in InnerValues}

Rot90Clockwise(b) == [i \in 1..Side |-> [j \in 1..Side |-> b[Side + 1 - j][i]]]

\* np.rot90(board): a quarter turn counterclockwise
Rot90(b) == [i \in 1..Side |-> [j \in 1..Side |-> b[j][Side + 1 - i]]]

RECURSIVE Rot90Times(_, _)
\* np.rot90(board, k=k)
Rot90Times(b, k) == IF k = 0 THEN b ELSE Rot90Times(Rot90(b), k - 1)

\* [top_left_pid, top_right_pid, bottom_right_pid, bottom_left_pid]
CornerPids(b) == <<b[1][1], b[1][Side], b[Side][Side], b[Side][1]>>

\* corner_pids.index(perspective_pid), 0 when it is in no corner
CornerIndex(b, perspective_pid) ==
  IF \A k \in 1..4 : CornerPids(b)[k] # perspective_pid
    THEN 0
    ELSE (CHOOSE k \in 1..4 :
            /\ CornerPids(b)[k] = perspective_pid
            /\ \A m \in 1..(k - 1) : CornerPids(b)[m] # perspective_pid) - 1

RotateBoardToPerspective(b, perspective_pid) ==
  Rot90Times(b, CornerIndex(b, perspective_pid))

\* np.where(mask, -1, np.mod(board + 4 - perspective_pid, 4))
Renumbered(b, perspective_pid) ==
  [i \in 1..Side |-> [j \in 1..Side |->
     IF b[i][j] = -1 THEN -1 ELSE (b[i][j] + (4 - perspective_pid)) % 4]]

NormalizeBoardToPerspective(b, perspective_pid) ==
  RotateBoardToPerspective(Renumbered(b, perspective_pid), 0)

\* A board is about to be normalised.
InitNorm ==
  /\ Quiet
  /\ files = <<>>
  /\ \E b \in Grids : last = [op |-> "grid", board |-> b, pids |-> <<>>, out |-> <<>>]

\* normalize_board_to_perspective on the board, or on the result of the
\* call before.
CallNormalize(perspective_pid) ==
  /\ Len(last.out) < MaxNormalize
  /\ LET b == IF last.out = <<>> THEN last.board ELSE last.out[Len(last.out)]
     IN last' = [op |-> "normalize", board |-> last.board,
                 pids |-> Append(last.pids, perspective_pid),
                 out |-> Append(last.out, NormalizeBoardToPerspective(b, perspective_pid))]
  /\ UNCHANGED <<sessionVars, poolVars, gameVars>>

NextNorm == \E perspective_pid \in 0..3 : CallNormalize(perspective_pid)

SpecNorm == InitNorm /\ [][NextNorm]_vars

\* ------------------------------------------------- a game that is watched
Watcher == 4          \* a thread other than the games' that reads a game's board

\* game.board_as_text, called by the watcher while play_game runs on the
\* game: send_command("showboard") with the session's lock.
Observe(t) ==
  /\ Running(t)
  /\ LET r == SendCommand(World, t, Cmd("showboard", 0, ""), TRUE, TRUE, Watcher, NoChoice)
     IN /\ r.exc = "none"
        /\ ApplyWorld(r.w)
  /\ UNCHANGED <<last, poolVars, gameVars, now>>

NextWatch ==
  \/ NextGame
  \/ \E t \in Games : Observe(t)

SpecWatch == InitGame /\ [][NextWatch]_vars

\* ------------------------------------------------- two games at once
\* The players of two games that run at once: internal players of the
\* pooled session's level, so that all of them share the pooled session.
SharingLineups ==
  {[i \in 1..4 |-> Player(i, "internal", st, AuxLevel)] : st \in {"best", "epsilon_greedy"}}

\* Two games, each on its own session at the default level, and one pooled
\* session at AuxLevel.
InitTwo ==
  /\ sess = [s \in Sessions |-> NewSession(IF s = Aux THEN AuxLevel ELSE PrimaryLevel)]
  /\ game = [s \in Sessions |-> <<>>]
  /\ files = <<>>
  /\ lock = [s \in Sessions |-> Free]
  /\ sent = <<>>
  /\ last = [op |-> "init", s |-> 0, pid |-> 0, mv |-> "", other |-> 0,
             exc |-> "none", res |-> NoRes, pre |-> Snapshot]
  /\ pool = <<>>
  /\ made = <<>>
  /\ handed = {}
  /\ now = 0
  /\ players \in [Games -> SharingLineups]
  /\ th = [t \in Games |-> Thread("start")]

\* The steps of the two play_game threads, interleaved.
NextTwo ==
  \E t \in Games :
    \/ Start(t)
    \/ LoopCheck(t)
    \/ PlayerCall(t)
    \/ InternalLegal(t)
    \/ InternalLock(t)
    \/ CloneBoard(t)
    \/ CloneSave(t)
    \/ CloneLoad(t)
    \/ CloneFinish(t)
    \/ InternalGenerate(t)
    \/ InternalCommit(t)

SpecTwo == InitTwo /\ [][NextTwo]_vars

\* ------------------------------------------------- the pool, called at once
\* A thread calling get_pentobi_move_session: its position and its locals.
Caller(pc, req, h, new, ret, exc) ==
  [pc |-> pc, req |-> req, h |-> h, new |-> new, ret |-> ret, exc |-> exc]

\* No session is pooled and two threads are about to ask for one.
InitRace ==
  /\ sess = [s \in Sessions |-> NewSession(PrimaryLevel)]
  /\ game = [s \in Sessions |-> <<>>]
  /\ files = <<>>
  /\ lock = [s \in Sessions |-> Free]
  /\ sent = <<>>
  /\ last = [op |-> "init"]
  /\ pool = <<>>
  /\ made = <<>>
  /\ handed = {}
  /\ players = [t \in Games |-> <<>>]
  /\ th = [t \in Games |-> Caller("idle", <<>>, {}, 0, 0, "none")]
  /\ now = 0

\* get_pentobi_move_session(starting_kwargs): the defaults are merged in and
\* the hash is computed
PoolCall(t, req) ==
  /\ th[t].pc = "idle"
  /\ WellFormed(req)
  /\ th' = [th EXCEPT ![t] = Caller("check", req,
                                    HashFrozenset(MergeKwargs(DefaultKwargs, req)), 0, 0, "none")]
  /\ UNCHANGED <<sessionVars, last, poolVars, players, now>>

\* if starting_kwargs_hash not in _GTP_MOVE_SESSIONS
PoolCheck(t) ==
  /\ th[t].pc = "check"
  /\ th' = [th EXCEPT ![t].pc = IF th[t].h \notin DOMAIN pool THEN "make" ELSE "return"]
  /\ UNCHANGED <<sessionVars, last, poolVars, players, now>>

\* sess = PentobiGTP(**starting_kwargs)
PoolMake(t) ==
  /\ th[t].pc = "make"
  /\ LET kw == MergeKwargs(DefaultKwargs, th[t].req)
     IN IF InitError(kw) # "none"
          THEN /\ th' = [th EXCEPT ![t].pc = "raised", ![t].exc = InitError(kw)]
               /\ made' = made
          ELSE /\ th' = [th EXCEPT ![t].pc = "store", ![t].new = Len(made) + 1]
               /\ made' = Append(made, kw)
  /\ UNCHANGED <<sessionVars, last, pool, handed, players, now>>

\* _GTP_MOVE_SESSIONS[starting_kwargs_hash] = sess
PoolStore(t) ==
  /\ th[t].pc = "store"
  /\ pool' = [x \in (DOMAIN pool) \cup {th[t].h} |-> IF x = th[t].h THEN th[t].new ELSE pool[x]]
  /\ th' = [th EXCEPT ![t].pc = "return"]
  /\ UNCHANGED <<sessionVars, last, made, handed, players, now>>

\* return _GTP_MOVE_SESSIONS[starting_kwargs_hash]
PoolReturn(t) ==
  /\ th[t].pc = "return"
  /\ th' = [th EXCEPT ![t].pc = "done", ![t].ret = pool[th[t].h]]
  /\ handed' = handed \cup {[params |-> Resolved(th[t].req), id |-> pool[th[t].h]]}
  /\ UNCHANGED <<sessionVars, last, pool, made, players, now>>

NextRace ==
  \E t \in Games :
    \/ \E req \in Requests : PoolCall(t, req)
    \/ PoolCheck(t)
    \/ PoolMake(t)
    \/ PoolStore(t)
    \/ PoolReturn(t)

SpecRace == InitRace /\ [][NextRace]_vars

\* ------------------------------------------------- a game without timeout
\* Four internal players in seat order: of one strategy and level, or the
\* test's line-up.
SeatOrderLineups ==
  {[i \in 1..4 |-> Player(i, "internal", st, lv)] :
     st \in Strategies, lv \in {PrimaryLevel, AuxLevel}}
    \cup {[i \in 1..4 |-> Player(i, "internal", "best",
                                 IF i = 1 THEN AuxLevel ELSE PrimaryLevel)]}

\* One game of internal players in seat order.
InitLive ==
  /\ sess = [s \in Sessions |-> NewSession(IF s = Aux THEN AuxLevel ELSE PrimaryLevel)]
  /\ game = [s \in Sessions |-> <<>>]
  /\ files = <<>>
  /\ lock = [s \in Sessions |-> Free]
  /\ sent = <<>>
  /\ last = [op |-> "init", s |-> 0, pid |-> 0, mv |-> "", other |-> 0,
             exc |-> "none", res |-> NoRes, pre |-> Snapshot]
  /\ pool = <<>>
  /\ made = <<>>
  /\ handed = {}
  /\ now = 0
  /\ \E l \in SeatOrderLineups : players = [t \in Games |-> IF t = 1 THEN l ELSE <<>>]
  /\ th = [t \in Games |-> IF t = 1 THEN Thread("start") ELSE Thread("off")]

\* The steps of play_game with internal players; no time passes, so the
\* timeout is never reached.
NextLive ==
  \E t \in Games :
    \/ Start(t)
    \/ LoopCheck(t)
    \/ PlayerCall(t)
    \/ InternalLegal(t)
    \/ InternalLock(t)
    \/ CloneBoard(t)
    \/ CloneSave(t)
    \/ CloneLoad(t)
    \/ CloneFinish(t)
    \/ InternalGenerate(t)
    \/ InternalCommit(t)

\* The thread of play_game keeps running: a step that can be taken is taken.
SpecLive == InitLive /\ [][NextLive]_vars /\ WF_vars(NextLive)

\* ------------------------------------------------------ claims on the API
\* The board a caller reads from session s: showboard parsed by the codec.
BoardOf(g) == ParseBoard(BoardText(g))

\* C1: play_move(pid, move) with pid different from current_player fails with
\* the turn-violation error (ValueError), sends no command to the engine and
\* leaves current_player, previous_players and the engine's game unchanged.
C1_TurnViolationRejected ==
  (last.op = "play_move" /\ last.pid # last.pre.sess[last.s].current_player)
    => /\ last.exc = "ValueError"
       /\ sent = <<>>
       /\ sess = last.pre.sess
       /\ game = last.pre.game

\* C1 witness: seat 1 tried to move while it was seat 4's turn.
C1_Witness ==
  /\ last.op = "play_move"
  /\ last.pid = 1
  /\ last.pre.sess[last.s].current_player = 4
  /\ last.exc = "ValueError"

\* C2: a session starts with current_player 1 and an empty history; a
\* successful play_move(pid, move) appends pid to previous_players and sets
\* current_player to (pid mod 4) + 1; current_player is always a seat.
C2_TurnRotation ==
  /\ last.op = "init" =>
        \A s \in Sessions : sess[s].current_player = 1 /\ sess[s].previous_players = <<>>
  /\ (last.op = "play_move" /\ last.exc = "none") =>
        /\ sess[last.s].previous_players =
             last.pre.sess[last.s].previous_players \o <<last.pid>>
        /\ sess[last.s].current_player = (IF last.pid = 4 THEN 1 ELSE last.pid + 1)
  /\ \A s \in Sessions : sess[s].current_player \in {1, 2, 3, 4}

\* C2 witness: seat 4 moved and the turn wrapped around to seat 1.
C2_Witness ==
  /\ last.op = "play_move"
  /\ last.exc = "none"
  /\ last.pid = 4
  /\ sess[last.s].current_player = 1

\* C3 (as claimed): an accepted play_move(s, move), a placement or "pass",
\* followed immediately by undo_last_move() on the same session succeeds,
\* restores current_player = s and the board of before the play_move.
C3_PlayThenUndoRestores ==
  [][(/\ last.op = "play_move"
      /\ last.exc = "none"
      /\ last'.op = "undo_last_move"
      /\ last'.s = last.s)
       => /\ last'.exc = "none"
          /\ sess'[last.s].current_player = last.pid
          /\ BoardOf(game'[last.s]) = BoardOf(last.pre.game[last.s])]_vars

\* C6: after Aux.set_to_state(A) the board and current_player of Aux equal
\* those of A, and A's board, score, current_player and previous_players are
\* what they were before the call.
C6_CloneCopiesAndKeepsSource ==
  (last.op = "set_to_state" /\ last.exc = "none") =>
    LET s == last.s
        o == last.other
    IN /\ BoardOf(game[s]) = BoardOf(game[o])
       /\ sess[s].current_player = sess[o].current_player
       /\ BoardOf(game[o]) = BoardOf(last.pre.game[o])
       /\ ScoreOf(game[o]) = ScoreOf(last.pre.game[o])
       /\ sess[o] = last.pre.sess[o]

\* C6 witness: a clone of a source with moves played, into a session whose
\* board and turn differed before.
C6_Witness ==
  /\ last.op = "set_to_state"
  /\ last.exc = "none"
  /\ game[last.other] # <<>>
  /\ BoardOf(last.pre.game[last.s]) # BoardOf(game[last.other])
  /\ last.pre.sess[last.s].current_player # sess[last.other].current_player

\* --------------------------------------------------- claims on the pool
\* C7 (as claimed): over all the requests the pool has answered, two requests
\* got the identical instance exactly when their parameters, defaults filled
\* in, are equal -- whatever the key order, whether a default was passed or
\* omitted, and however long ago the first of them was answered.
C7_SameInstanceIffSameParams ==
  \A p \in handed, q \in handed : (p.params = q.params) <=> (p.id = q.id)

\* ----------------------------------------------------- claims on the games
InPlayer(t) ==
  th[t].pc \in {"i_legal", "i_lock", "c_board", "c_save", "c_load", "c_fin", "i_gen",
                "i_commit", "e_lock", "e_legal", "e_select", "e_commit"}

NextSeat(pid) == IF pid = 4 THEN 1 ELSE pid + 1

OnlyPass(g) == \A pid \in Seats : Legal(g, pid) = {}

\* C4: whenever a command is written to a session's subprocess, the writer
\* holds that session's lock until the response is read (the commands of
\* set_to_state on both sessions included).
C4_WriterHoldsGate == \A i \in 1..Len(sent) : sent[i].held

\* C5: a caller holding a session's lock never acquires it again in a
\* nested call, so no play_move blocks on a lock its own thread holds, and
\* between two play_move calls the thread holds no lock.
C5_NoSelfDeadlock ==
  \A t \in Games :
    /\ th[t].pc # "deadlocked"
    /\ th[t].pc \in {"loop", "returned", "raised"} => \A s \in Sessions : lock[s] # t

\* C8: a completed play_move of a player whose seat had the turn has appended
\* the player's pid to previous_players, advanced current_player by one seat,
\* and left on the board at most one more move, a placement of that seat.
C8_CompletedPlayMoveCommitsOne ==
  \A t \in Games :
    (th[t].pc = "loop" /\ th[t].pre.valid /\ th[t].pre.pid = th[t].pre.cp) =>
      /\ sess[t].previous_players = Append(th[t].pre.prev, th[t].pre.pid)
      /\ sess[t].current_player = NextSeat(th[t].pre.cp)
      /\ \/ game[t] = th[t].pre.game
         \/ \E mv \in Placements :
              game[t] = Append(th[t].pre.game, [pid |-> th[t].pre.pid, mv |-> mv])

\* An external player in turn has completed a play_move that placed a piece.
C8_Witness ==
  /\ th[1].pc = "loop"
  /\ th[1].pre.valid
  /\ th[1].pre.pid = th[1].pre.cp
  /\ players[1][1].kind = "external"
  /\ Len(game[1]) = Len(th[1].pre.game) + 1
  /\ Len(sess[1].previous_players) >= 2

\* C9: the player whose play_move is called is the player whose pid is the
\* session's current_player at that moment, whatever the order of the list.
C9_CalledPlayerHasTurn ==
  \A t \in Games :
    /\ th[t].pc = "play" => th[t].p.pid = sess[t].current_player
    /\ InPlayer(t) => th[t].pre.pid = th[t].pre.cp

C11_GeneratedMoveIsLegal ==
  (last.op = "generate_internal_move" /\ last.exc = "none") =>
    /\ last.res \in Elems(GetLegalMoves(World, last.s, last.pid, TRUE, Main).res)
    /\ (HasQ(last.reply) \/ last.reply.body = <<>>) => last.res = "pass"

\* ---------------------------------------------- claims on the construction
\* C12: constructing a session with a game other than "classic", or with a
\* level outside 1..9, fails with an error of the argument checks
\* (NotImplementedError for the game, ValueError for the level) and no
\* subprocess has been spawned.
C12_BadConfigurationRejected ==
  (last.op = "construct"
     /\ (last.game # Classic \/ last.level < 1 \/ last.level > 9)) =>
    /\ last.exc = (IF last.game # Classic THEN "NotImplementedError" ELSE "ValueError")
    /\ made = last.pre

\* C12 witness: with one session running, PentobiGTP(level=10) was refused.
C12_Witness ==
  /\ last.op = "construct"
  /\ last.game = Classic
  /\ last.level = 10
  /\ last.found
  /\ last.exc = "ValueError"
  /\ Len(made) = 1
  /\ made = last.pre

\* ------------------------------------------------ claims on the evaluation
\* The cells of seat s on a parsed board (seat s is encoded as s - 1), and
\* the seat two positions from s in the rotation.
CellsOfSeat(board, s) == Cardinality({c \in DOMAIN board : board[c] = s - 1})
SeatAcross(s) == ((s + 1) % 4) + 1
OwnMinusAcross(board, s) == CellsOfSeat(board, s) - CellsOfSeat(board, SeatAcross(s))

\* C13 (as claimed): GreedyExternalPlayer at seat s scores a board as the
\* cells of seat s minus the cells of the seat two positions away, in the
\* encoding of the parsed board; of two candidates the one with the higher
\* such score is selected.
C13_GreedyScoresOwnMinusAcross ==
  last.op = "evaluated" =>
    /\ \A i \in 1..2 : last.values[i] = OwnMinusAcross(last.boards[i], last.pid)
    /\ \A i \in 1..2, j \in 1..2 :
         OwnMinusAcross(last.boards[i], last.pid) > OwnMinusAcross(last.boards[j], last.pid)
           => last.best = i

\* ------------------------------------------- more claims on the API
\* C14 (as claimed): when previous_players is not empty and the engine
\* answers "undo" with an error, undo_last_move fails with its own error
\* (ValueError "Undo failed"), not with the generic Exception of send_command.
C14_RejectedUndoRaisesUndoError ==
  (/\ last.op = "undo_last_move"
   /\ Len(last.pre.sess[last.s].previous_players) > 0
   /\ HasQ(Engine(last.pre.game[last.s], files, Cmd("undo", 0, ""), NoChoice).resp))
    => last.exc = "ValueError"

\* ---------------------------------------------------- claims on the files
\* C15 (as claimed): set_to_state deletes the temporary file it created on
\* every exit path: after the call has returned or failed, the load into the
\* destination included, the file does not exist.
C15_TempFileAlwaysDeleted ==
  last.op = "set_to_state" => ~Exists(files, last.path)

\* C16 (as claimed): load_sgf and save_sgf reject a bad path before any
\* command is sent: a path without the .blksgf extension fails with the
\* extension error (AssertionError), for load_sgf also when the file does not
\* exist; load_sgf of a missing .blksgf file fails with the not-found error
\* and save_sgf to an existing .blksgf file without overwrite with the
\* file-exists error (both ValueError); the sessions, the engines' games and
\* the files are then unchanged.
C16_BadPathsRejected ==
  /\ (last.op \in {"load_sgf", "save_sgf"} /\ ~EndsWithBlksgf(last.path))
       => last.exc = "AssertionError"
  /\ (last.op = "load_sgf" /\ EndsWithBlksgf(last.path)
        /\ ~Exists(last.prefiles, last.path))
       => last.exc = "ValueError"
  /\ (last.op = "save_sgf" /\ EndsWithBlksgf(last.path)
        /\ Exists(last.prefiles, last.path) /\ ~last.overwrite)
       => last.exc = "ValueError"
  /\ (last.op \in {"load_sgf", "save_sgf"} /\ last.exc \in {"AssertionError", "ValueError"})
       => /\ sent = <<>>
          /\ sess = last.pre.sess
          /\ game = last.pre.game
          /\ files = last.prefiles

\* C17: when the reply to a command contains "?" and raise_errors is set,
\* send_command raises (the generic Exception) and a lock it took itself is
\* free again; in every other case it returns the engine's reply unchanged,
\* a reply with "?" included.  It leaves a lock held by its caller alone.
C17_SendCommandRaisesOrReturnsReply ==
  last.op = "send_command" =>
    LET reply == Engine(last.pre.game[last.s], files, last.cmd, NoChoice).resp
    IN /\ (HasQ(reply) /\ last.raise_errors) => last.exc = "Exception"
       /\ ~(HasQ(reply) /\ last.raise_errors) => (last.exc = "none" /\ last.res = reply)
       /\ last.lockAfter = (IF last.lock_process THEN Free ELSE Main)
       /\ lock[last.s] = Free

\* C17 witness: on a board with a move, a rejected command raised from a
\* send_command that had taken the lock itself.
C17_Witness ==
  /\ last.op = "send_command"
  /\ last.raise_errors
  /\ last.lock_process
  /\ last.exc = "Exception"
  /\ last.lockAfter = Free
  /\ Len(game[last.s]) > 0

\* --------------------------------------------------- claims on the parser
\* The cells of a body line: what follows the row number, up to Columns.
CellsOfLine(line) == [j \in 1..(IF Len(line) - 1 < Columns THEN Len(line) - 1 ELSE Columns) |-> line[j + 1]]

\* C18 (as claimed): parse_gtp_board_to_matrix fails whenever a body row has
\* fewer cells than the board has columns or a cell is no glyph of the
\* symbol table, and never returns a grid with a row that is not as wide as
\* the board.
C18_MalformedBoardRejected ==
  last.op = "parsed" =>
    LET body == SubSeq(last.lines, 2, Len(last.lines) - 1)
    IN /\ (\E i \in 1..Len(body) :
             \/ Len(CellsOfLine(body[i])) < Columns
             \/ \E j \in 1..Len(CellsOfLine(body[i])) : CellsOfLine(body[i])[j] \notin KnownGlyphs)
            => last.exc # "none"
       /\ last.exc = "none" => \A i \in 1..Len(last.res) : Len(last.res[i]) = Columns

\* ------------------------------------------------ claims on the norming
\* The number of empty cells of a board matrix.
Empties(b) == Cardinality({<<i, j>> \in (1..Side) \X (1..Side) : b[i][j] = -1})

\* C19: normalising a board to perspective 0 is idempotent: a second
\* normalisation to perspective 0 returns the result of the first, and the
\* empty cells stay empty (as many cells are empty after each call as
\* before, and every cell holds -1 or a seat 0..3).
C19_NormalizeToZeroIdempotent ==
  (last.op = "normalize" /\ last.pids = <<0, 0>>) =>
     /\ last.out[2] = last.out[1]
     /\ Empties(last.out[1]) = Empties(last.board)
     /\ Empties(last.out[2]) = Empties(last.board)
     /\ \A i \in 1..Side, j \in 1..Side : last.out[1][i][j] \in CellValues

\* C19 happens: a board with empty cells was turned by the first
\* normalisation to perspective 0 and normalised to it again.
C19_Witness ==
  /\ last.op = "normalize"
  /\ last.pids = <<0, 0>>
  /\ last.out[1] # last.board
  /\ Empties(last.board) > 0
  /\ CornerIndex(last.board, 0) = 1

\* ------------------------------------------- claims on the empty history
\* C20: undo_last_move called with an empty previous_players does nothing:
\* it sends no command to the engine, raises nothing, and leaves
\* current_player, previous_players and the engine's game unchanged, also
\* when the engine holds moves (after load_sgf or set_to_state).
C20_UndoOnEmptyHistoryIsNoOp ==
  (last.op = "undo_last_move" /\ last.pre.sess[last.s].previous_players = <<>>) =>
     /\ sent = <<>>
     /\ last.exc = "none"
     /\ sess = last.pre.sess
     /\ game = last.pre.game
     /\ \A s \in Sessions : BoardOf(game[s]) = BoardOf(last.pre.game[s])

\* C20 happens: the pooled session was set to a state with moves, its
\* history is empty, and undo_last_move was called on it.
C20_Witness ==
  /\ last.op = "undo_last_move"
  /\ last.s = Aux
  /\ last.pre.sess[Aux].previous_players = <<>>
  /\ last.pre.game[Aux] # <<>>
  /\ game[Aux] # <<>>

\* ------------------------------------------- claims on the watched game
\* C21 (as claimed): in the play_move of an internal player with the
\* strategy "best", the generation of the move and its commit on the game's
\* session happen under one hold of that session's lock: once the move is
\* generated and until it is committed, no other thread's command is sent
\* to the game's session.
C21_NoCommandBetweenGenerateAndCommit ==
  [][\A t \in Games :
       (th[t].pc = "i_commit" /\ th[t].p.kind = "internal" /\ th[t].p.strategy = "best")
         => \A i \in 1..Len(sent') : ~(sent'[i].s = t /\ sent'[i].by # t)]_vars

\* ------------------------------------------------ claims on the two games
\* C22: when the players of two games running at once share the pooled
\* session, a player's set_to_state and generate_internal_move run under one
\* hold of the pooled session's lock: when generate_internal_move is about
\* to run for a player, that player's thread holds the lock, and the pooled
\* session's board and current_player are those of the player's own game.
C22_GenerateSeesOwnClone ==
  \A t \in Games :
    (th[t].pc = "i_gen" /\ MoveSess(World, t, th[t].p) = Aux) =>
      /\ lock[Aux] = t
      /\ BoardOf(game[Aux]) = BoardOf(game[t])
      /\ BoardOf(game[Aux]) = BoardOf(th[t].pre.game)
      /\ sess[Aux].current_player = sess[t].current_player
      /\ sess[Aux].current_player = th[t].pre.cp

\* C22 happens: a player of game 1 is about to generate its move on the
\* pooled session, which a player of game 2 has used before, and game 2 has
\* another board and another seat in turn.
C22_Witness ==
  /\ th[1].pc = "i_gen"
  /\ MoveSess(World, 1, th[1].p) = Aux
  /\ th[2].pc = "i_lock"
  /\ MoveSess(World, 2, th[2].p) = Aux
  /\ game[2] # <<>>
  /\ game[1] # <<>>
  /\ BoardOf(game[2]) # BoardOf(game[1])
  /\ sess[2].current_player # sess[1].current_player

\* ------------------------------------------------ claims on the pass-only seat
\* C23 (as claimed): when get_legal_moves returned ["pass"] for an external
\* player's seat, its play_move with the best-move selection ends without
\* an error: the selection plays no move on the session and selects "pass",
\* and the commit advances the turn to the next seat and leaves the board
\* as it was.
C23_PassOnlySeatPasses ==
  [][\A t \in Games :
       (th[t].p.kind = "external" /\ th[t].moves = <<"pass">> /\ th'[t] # th[t]) =>
          /\ th[t].pc = "e_select" =>
               /\ th'[t].pc = "e_commit"
               /\ SelectedMove(th'[t].sel) = "pass"
               /\ sent' = <<>>
               /\ game' = game
          /\ th[t].pc = "e_commit" =>
               /\ th'[t].pc = "loop"
               /\ sess'[t].current_player = NextSeat(th[t].p.pid)
               /\ sess'[t].previous_players = Append(sess[t].previous_players, th[t].p.pid)
               /\ game' = game]_vars

\* ------------------------------------------------ claims on the history
\* C24 (as claimed): after any sequence of play_move, undo_last_move,
\* load_sgf and set_to_state, a session's previous_players agrees with the
\* engine's moves: it is as long as the list of moves the engine can
\* retract, and its seats are the seats of those moves in order, so that an
\* undo_last_move pops the seat of the move the engine retracts.
C24_HistoryAgreesWithEngine ==
  \A s \in Sessions :
    /\ Len(sess[s].previous_players) = Len(game[s])
    /\ \A i \in 1..Len(game[s]) :
         i <= Len(sess[s].previous_players) => sess[s].previous_players[i] = game[s][i].pid

\* ------------------------------------------- claims on rejected commands
\* C25: when the engine rejects the play command of a play_move (a move
\* other than "pass" of the seat in turn) or the undo command of an
\* undo_last_move (with a history that is not empty), the call raises, and
\* the session's current_player and previous_players are what they were
\* before the call.
C25_RejectedCommandChangesNothing ==
  LET s == last.s
      before == last.pre.sess[s]
  IN /\ (/\ last.op = "play_move"
         /\ last.mv # "pass"
         /\ last.pid = before.current_player
         /\ HasQ(Engine(last.pre.game[s], files, Cmd("play", last.pid, last.mv), NoChoice).resp))
          => /\ last.exc # "none"
             /\ sess[s] = before
             /\ game[s] = last.pre.game[s]
     /\ (/\ last.op = "undo_last_move"
         /\ Len(before.previous_players) > 0
         /\ HasQ(Engine(last.pre.game[s], files, Cmd("undo", 0, ""), NoChoice).resp))
          => /\ last.exc # "none"
             /\ sess[s] = before
             /\ game[s] = last.pre.game[s]

\* C25 happens: the engine has rejected the placement of the seat in turn on
\* a session with a history.
C25_Witness ==
  /\ last.op = "play_move"
  /\ last.mv # "pass"
  /\ last.pid = last.pre.sess[last.s].current_player
  /\ last.exc = "Exception"
  /\ Len(sess[last.s].previous_players) > 0
  /\ Len(sent) = 1

\* ------------------------------------------ claims on the pool called at once
\* C26 (as claimed): when threads call get_pentobi_move_session at once with
\* arguments of the same hash, at most one session is constructed for that
\* hash, and every caller gets that session.
C26_OneSessionPerFingerprint ==
  /\ \A i \in 1..Len(made), j \in 1..Len(made) :
       HashFrozenset(made[i]) = HashFrozenset(made[j]) => i = j
  /\ \A t \in Games, u \in Games :
       (th[t].pc = "done" /\ th[u].pc = "done" /\ th[t].h = th[u].h) => th[t].ret = th[u].ret

\* ------------------------------------------------ claims on termination
\* C27: with four internal players in seat order and no timeout, play_game
\* eventually returns, without an exception, after an is_game_finished that
\* said yes: no seat has a placement left.
C27_GameEventuallyFinishes ==
  <>(/\ th[1].pc = "returned"
     /\ th[1].exc = "none"
     /\ th[1].chk.finished
     /\ OnlyPass(game[1]))

\* C27 happens: play_game has returned from a finished game in which seats
\* have placed pieces and a seat has passed.
C27_Witness ==
  /\ th[1].pc = "returned"
  /\ th[1].chk.finished
  /\ OnlyPass(game[1])
  /\ Len(game[1]) >= 2
  /\ Len(sess[1].previous_players) > Len(game[1])

====
